---- MODULE Spec2Model ----
(***************************************************************************)
(* GitHubreposcan.py: a walk over the content tree of a repository and of  *)
(* its submodules that reports lines shaped like hardcoded credentials.    *)
(*                                                                         *)
(* Text is modelled as a sequence of symbols, one symbol per character     *)
(* class of PASSWORD_REGEX:                                                *)
(*   "K"  one of the keywords password|passwd|pwd|secret|token|key         *)
(*   "="  a separator, ':' or '='                                          *)
(*   " "  a whitespace character other than a line break                   *)
(*   "q"  a quote, ' or "                                                  *)
(*   ";"  '&' or ';'                                                       *)
(*   "x"  any other character                                              *)
(*   "n"  a line break                                                     *)
(***************************************************************************)
EXTENDS Integers, Sequences, FiniteSets, TLC

VARIABLES
    github_token,     \* os.environ.get("GITHUB_TOKEN")
    repo_name,        \* os.environ.get("GITHUB_REPO")
    world,            \* what the provider serves: repository -> its tree
    pc,               \* position of main
    stack,            \* chain of process_repository activations, top last
    processed_files,  \* the set shared by every activation
    results,          \* main's results, once the top-level walk returned
    out,              \* lines printed so far
    netCalls,         \* requests made to the provider so far
    failures,         \* provider calls that raised so far: where each was made
    scanned,          \* calls of check_file_for_passwords so far, in order
    writes,           \* calls of write_to_excel so far
    report,           \* rows of hardcoded_passwords.xlsx, <<>> while absent
    file_content,     \* argument of a stand-alone check_file_for_passwords
    matches           \* its return value

vars == <<github_token, repo_name, world, pc, stack, processed_files, results,
          out, netCalls, failures, scanned, writes, report, file_content, matches>>

(***************************************************************************)
(* Bounds                                                                  *)
(***************************************************************************)
MaxLen == 4          \* longest text given to a stand-alone scan
MaxFail == 1         \* provider calls that may raise in one run
RecursionLimit == 3  \* interpreter's limit on nested activations

None == "None"          \* an unset variable, an absent submodule
NoMatch == <<>>          \* re.search found nothing (group 2 is never empty)
NoFile == <<"absent">>   \* in a tree: the root holds no file "a"

(***************************************************************************)
(* PASSWORD_REGEX and re.search                                            *)
(***************************************************************************)
Symbols == {"K", "=", " ", "q", ";", "x", "n"}

\* \s
IsSpace(c) == c \in {" ", "n"}

\* [^\s'"&;]
IsValueChar(c) == ~IsSpace(c) /\ c \notin {"q", ";"}

\* position after the longest run of \s starting at j
RECURSIVE SkipSpaces(_, _)
SkipSpaces(line, j) ==
    IF j <= Len(line) /\ IsSpace(line[j]) THEN SkipSpaces(line, j + 1) ELSE j

\* position after the longest run of [^\s'"&;] starting at j
RECURSIVE SkipValue(_, _)
SkipValue(line, j) ==
    IF j <= Len(line) /\ IsValueChar(line[j]) THEN SkipValue(line, j + 1) ELSE j

\* group(2) of a match of PASSWORD_REGEX that starts at position i, or NoMatch
MatchAt(line, i) ==
    IF i > Len(line) \/ line[i] # "K" THEN NoMatch
    ELSE LET j == SkipSpaces(line, i + 1) IN
         IF j > Len(line) \/ line[j] # "=" THEN NoMatch
         ELSE LET k  == SkipSpaces(line, j + 1)
                  v  == IF k <= Len(line) /\ line[k] = "q" THEN k + 1 ELSE k
                  e  == SkipValue(line, v)
              IN  IF e > v THEN SubSeq(line, v, e - 1) ELSE NoMatch

\* re.search: group(2) of the match with the leftmost start, or NoMatch
RECURSIVE SearchFrom(_, _)
SearchFrom(line, i) ==
    IF i > Len(line) THEN NoMatch
    ELSE IF MatchAt(line, i) # NoMatch THEN MatchAt(line, i)
    ELSE SearchFrom(line, i + 1)

re_search(line) == SearchFrom(line, 1)

(***************************************************************************)
(* str.splitlines and str.strip                                            *)
(***************************************************************************)
RECURSIVE SplitFrom(_, _, _)
SplitFrom(text, i, cur) ==
    IF i > Len(text) THEN (IF cur = <<>> THEN <<>> ELSE <<cur>>)
    ELSE IF text[i] = "n" THEN <<cur>> \o SplitFrom(text, i + 1, <<>>)
    ELSE SplitFrom(text, i + 1, Append(cur, text[i]))

splitlines(text) == SplitFrom(text, 1, <<>>)

RECURSIVE LStrip(_)
LStrip(s) == IF s # <<>> /\ IsSpace(Head(s)) THEN LStrip(Tail(s)) ELSE s

RECURSIVE RStrip(_)
RStrip(s) ==
    IF s # <<>> /\ IsSpace(s[Len(s)]) THEN RStrip(SubSeq(s, 1, Len(s) - 1)) ELSE s

strip(s) == RStrip(LStrip(s))

(***************************************************************************)
(* check_file_for_passwords                                                *)
(***************************************************************************)
\* the line number stored with a match found at 0-based index i
LineNumberZeroBased(i) == i

LineNumber(i) == i + 1

\* the iterations i, i+1, ... of the loop over enumerate(lines)
RECURSIVE ScanLines(_, _)
ScanLines(lines, i) ==
    IF i >= Len(lines) THEN <<>>
    ELSE LET line == lines[i + 1]
             m    == re_search(line)
         IN  (IF m # NoMatch THEN << <<m, LineNumber(i), strip(line)>> >> ELSE <<>>)
             \o ScanLines(lines, i + 1)

check_file_for_passwords(content) == ScanLines(splitlines(content), 0)

\* lines 65-68: the findings one file adds to results
FileFindings(path, content) ==
    LET m == check_file_for_passwords(content)
    IN  [i \in 1..Len(m) |-> <<path, m[i][1], m[i][2], m[i][3]>>]

(***************************************************************************)
(* The provider: repositories and their trees                              *)
(*                                                                         *)
(* A tree is a record: a, the content of the file "a" in the root (NoFile  *)
(* when there is none); d, whether the root holds the directory "d", which *)
(* holds the file "d/b"; l, whether the root holds the symlink "l"; s and  *)
(* t, the repositories the submodules "s" and "t" point to (None when      *)
(* there is none). Paths are relative to the root of their repository.     *)
(***************************************************************************)
Repos == {"R0", "R1", "R2"}

Text0 == <<"x", " ", "K">>
Text1 == <<"K", "=", "x">>
Text2 == <<"K", "=", "x", "n", "x", "n", "K", " ", "=", "q", "x", "q">>

Entry(type, path) == [type |-> type, path |-> path]

\* repo.get_contents(""): the entries of the root, in name order
RootListing(tree) ==
    (IF tree.a # NoFile THEN <<Entry("file", "a")>> ELSE <<>>)
    \o (IF tree.d THEN <<Entry("dir", "d")>> ELSE <<>>)
    \o (IF tree.l THEN <<Entry("symlink", "l")>> ELSE <<>>)
    \o (IF tree.s # None THEN <<Entry("submodule", "s")>> ELSE <<>>)
    \o (IF tree.t # None THEN <<Entry("submodule", "t")>> ELSE <<>>)

\* repo.get_contents(content.path) of a directory
DirListing(tree, path) == IF path = "d" THEN <<Entry("file", "d/b")>> ELSE <<>>

\* content.decoded_content.decode("utf-8", errors="ignore")
Content(tree, path) == IF path = "a" THEN tree.a ELSE Text1

\* repo.get_submodule(content.path).module()
Target(tree, path) == IF path = "s" THEN tree.s ELSE tree.t

RootTrees ==
    [a : {NoFile, Text0, Text1}, d : BOOLEAN, l : BOOLEAN,
     s : Repos \cup {None}, t : {"R1", "R2", None}]

MidTrees ==
    [a : {NoFile, Text1}, d : BOOLEAN, l : {FALSE},
     s : Repos \cup {None}, t : {None}]

LeafTrees ==
    [a : {Text1, Text2}, d : {FALSE}, l : {FALSE}, s : {None}, t : {None}]

\* the repositories the walk of R0 can come to
Reachable(w) ==
    LET one == {"R0"} \cup ({w["R0"].s, w["R0"].t} \ {None})
    IN  one \cup ({w[r].s : r \in one} \ {None})

DefaultMid == [a |-> NoFile, d |-> FALSE, l |-> FALSE, s |-> None, t |-> None]

DefaultLeaf == [a |-> Text1, d |-> FALSE, l |-> FALSE, s |-> None, t |-> None]

\* one world for each tree of R0 and of every repository the walk can come to
Worlds ==
    {w \in {[r \in Repos |-> IF r = "R0" THEN root ELSE IF r = "R1" THEN mid ELSE leaf] :
               root \in RootTrees, mid \in MidTrees, leaf \in LeafTrees} :
        /\ "R1" \notin Reachable(w) => w["R1"] = DefaultMid
        /\ "R2" \notin Reachable(w) => w["R2"] = DefaultLeaf}

(***************************************************************************)
(* process_repository                                                      *)
(***************************************************************************)
\* an activation: its repo, its queue contents, its results, and the path of
\* the submodule entry whose handling called it ("" for the call from main)
Frame(repo, contents, via) ==
    [repo |-> repo, contents |-> contents, results |-> <<>>, via |-> via]

Top == stack[Len(stack)]

SetTop(f) == [stack EXCEPT ![Len(stack)] = f]

\* the submodule paths that lead from main to the top activation
Chain == [i \in 1..Len(stack) |-> stack[i].via]

Walking == pc = "walking" /\ stack # <<>>

CanFail == Len(failures) < MaxFail

\* a provider call made for the entry `path` of the top activation raises
Fails(call, path) ==
    failures' = Append(failures, [call |-> call, chain |-> Chain, path |-> path])

\* a line printed about an entry, with the text of the exception in it
Line(kind, path, e) == <<kind, path, e>>

\* the top activation with the head of its queue taken (line 59)
Popped == [Top EXCEPT !.contents = Tail(Top.contents)]

\* an exception leaves the top activation, and its results are lost with it:
\* line 84 of the caller catches it, or nothing does and main ends with it
PropagateKeepingFindings(e) ==
    IF Len(stack) = 1
    THEN /\ stack' = <<>>
         /\ pc' = "crashed"
         /\ out' = Append(out, Line("Traceback", "", e))
    ELSE /\ stack' = [SubSeq(stack, 1, Len(stack) - 1)
                        EXCEPT ![Len(stack) - 1].results = @ \o Top.results]
         /\ pc' = pc
         /\ out' = Append(out, Line("Error processing submodule", Top.via, e))

Propagate(e) ==
    IF Len(stack) = 1
    THEN /\ stack' = <<>>
         /\ pc' = "crashed"
         /\ out' = Append(out, Line("Traceback", "", e))
    ELSE /\ stack' = SubSeq(stack, 1, Len(stack) - 1)
         /\ pc' = pc
         /\ out' = Append(out, Line("Error processing submodule", Top.via, e))

\* lines 60-70 without the try of line 64
ProcessFileNoTry ==
    /\ Walking /\ Top.contents # <<>>
    /\ Head(Top.contents).type = "file"
    /\ LET content == Head(Top.contents) IN
       IF content.path \in processed_files
       THEN /\ stack' = SetTop(Popped)
            /\ UNCHANGED <<pc, processed_files, out, netCalls, failures, scanned>>
       ELSE /\ processed_files' = processed_files \cup {content.path}
            /\ netCalls' = netCalls + 1
            /\ \/ /\ scanned' = Append(scanned,
                                       [repo |-> Top.repo, path |-> content.path])
                  /\ stack' = SetTop([Popped EXCEPT !.results =
                                 Top.results \o
                                 FileFindings(content.path,
                                              Content(world[Top.repo], content.path))])
                  /\ UNCHANGED <<pc, out, failures>>
               \/ /\ CanFail
                  /\ Fails("decoded_content", content.path)
                  /\ Propagate("GithubException")
                  /\ UNCHANGED scanned
    /\ UNCHANGED <<github_token, repo_name, world, results, writes, report,
                   file_content, matches>>

\* lines 60-70
ProcessFile ==
    /\ Walking /\ Top.contents # <<>>
    /\ Head(Top.contents).type = "file"
    /\ LET content == Head(Top.contents) IN
       IF content.path \in processed_files
       THEN /\ stack' = SetTop(Popped)
            /\ UNCHANGED <<processed_files, out, netCalls, failures, scanned>>
       ELSE /\ processed_files' = processed_files \cup {content.path}
            /\ netCalls' = netCalls + 1
            /\ \/ /\ scanned' = Append(scanned,
                                       [repo |-> Top.repo, path |-> content.path])
                  /\ stack' = SetTop([Popped EXCEPT !.results =
                                 Top.results \o
                                 FileFindings(content.path,
                                              Content(world[Top.repo], content.path))])
                  /\ UNCHANGED <<out, failures>>
               \/ /\ CanFail
                  /\ Fails("decoded_content", content.path)
                  /\ out' = Append(out, Line("Error reading file", content.path,
                                             "GithubException"))
                  /\ stack' = SetTop(Popped)
                  /\ UNCHANGED scanned
    /\ UNCHANGED <<github_token, repo_name, world, pc, results, writes, report,
                   file_content, matches>>

\* lines 71-72
ProcessDir ==
    /\ Walking /\ Top.contents # <<>>
    /\ Head(Top.contents).type = "dir"
    /\ netCalls' = netCalls + 1
    /\ \/ /\ stack' = SetTop([Popped EXCEPT !.contents =
                         Tail(Top.contents) \o
                         DirListing(world[Top.repo], Head(Top.contents).path)])
          /\ UNCHANGED <<pc, out, failures>>
       \/ /\ CanFail
          /\ Fails("get_contents_dir", Head(Top.contents).path)
          /\ Propagate("GithubException")
    /\ UNCHANGED <<github_token, repo_name, world, processed_files, results,
                   scanned, writes, report, file_content, matches>>

\* lines 73-85, up to the first statement of the nested activation (56-57)
ProcessSubmodule ==
    /\ Walking /\ Top.contents # <<>>
    /\ Head(Top.contents).type = "submodule"
    /\ LET content  == Head(Top.contents)
           sub_repo == Target(world[Top.repo], content.path)
           caught(e) == /\ stack' = SetTop(Popped)
                        /\ out' = Append(out, Line("Error processing submodule",
                                                   content.path, e))
       IN  \/ \* get_submodule or module() raises
              /\ CanFail
              /\ Fails("get_submodule", content.path)
              /\ netCalls' = netCalls + 1
              /\ caught("GithubException")
           \/ \* module() returns nothing
              /\ CanFail
              /\ Fails("module", content.path)
              /\ netCalls' = netCalls + 1
              /\ stack' = SetTop(Popped)
              /\ out' = Append(out, Line("Warning: Could not get repository object for submodule",
                                         content.path, ""))
           \/ \* the nested call exceeds the interpreter's recursion limit
              /\ Len(stack) >= RecursionLimit
              /\ netCalls' = netCalls + 1
              /\ caught("RecursionError")
              /\ UNCHANGED failures
           \/ \* the nested activation starts; its get_contents("") raises
              /\ Len(stack) < RecursionLimit
              /\ CanFail
              /\ Fails("get_contents_root", content.path)
              /\ netCalls' = netCalls + 2
              /\ caught("GithubException")
           \/ \* the nested activation starts with the root listing
              /\ Len(stack) < RecursionLimit
              /\ netCalls' = netCalls + 2
              /\ stack' = Append(SetTop(Popped),
                                 Frame(sub_repo, RootListing(world[sub_repo]),
                                       content.path))
              /\ UNCHANGED <<out, failures>>
    /\ UNCHANGED <<github_token, repo_name, world, pc, processed_files, results,
                   scanned, writes, report, file_content, matches>>

\* lines 86-87
ProcessUnknown ==
    /\ Walking /\ Top.contents # <<>>
    /\ Head(Top.contents).type \notin {"file", "dir", "submodule"}
    /\ stack' = SetTop(Popped)
    /\ out' = Append(out, Line("Unknown content type", Head(Top.contents).path,
                               Head(Top.contents).type))
    /\ UNCHANGED <<github_token, repo_name, world, pc, processed_files, results,
                   netCalls, failures, scanned, writes, report, file_content,
                   matches>>

\* line 88, and the caller's use of the value: line 80 or line 149
Return ==
    /\ Walking /\ Top.contents = <<>>
    /\ IF Len(stack) = 1
       THEN /\ results' = Top.results
            /\ stack' = <<>>
            /\ pc' = "returned"
       ELSE /\ stack' = [SubSeq(stack, 1, Len(stack) - 1)
                           EXCEPT ![Len(stack) - 1].results = @ \o Top.results]
            /\ UNCHANGED <<results, pc>>
    /\ UNCHANGED <<github_token, repo_name, world, processed_files, out, netCalls,
                   failures, scanned, writes, report, file_content, matches>>

(***************************************************************************)
(* main                                                                    *)
(***************************************************************************)
\* lines 125-136
MainConfigError ==
    /\ pc = "start"
    /\ github_token = None \/ repo_name = None
    /\ out' = Append(out,
                     IF github_token = None
                     THEN Line("Error: GITHUB_TOKEN environment variable not set.", "", "")
                     ELSE Line("Error: GITHUB_REPO environment variable not set.", "", ""))
    /\ pc' = "exit"
    /\ UNCHANGED <<github_token, repo_name, world, stack, processed_files, results,
                   netCalls, failures, scanned, writes, report, file_content,
                   matches>>

\* lines 138-146 with the except clause falling through to line 148
MainConnectFallsThrough ==
    /\ pc = "start"
    /\ github_token # None /\ repo_name # None
    /\ netCalls' = netCalls + 1
    /\ \/ /\ out' = Append(out, Line("Scanning repository", repo_name, ""))
          /\ pc' = "connected"
          /\ UNCHANGED failures
       \/ /\ CanFail
          /\ Fails("get_repo", repo_name)
          /\ out' = Append(out, Line("Error connecting to GitHub or accessing the repository",
                                     "", "GithubException"))
          /\ pc' = "connected"
    /\ UNCHANGED <<github_token, repo_name, world, stack, processed_files, results,
                   scanned, writes, report, file_content, matches>>

\* lines 138-146
MainConnect ==
    /\ pc = "start"
    /\ github_token # None /\ repo_name # None
    /\ netCalls' = netCalls + 1
    /\ \/ /\ out' = Append(out, Line("Scanning repository", repo_name, ""))
          /\ pc' = "connected"
          /\ UNCHANGED failures
       \/ /\ CanFail
          /\ Fails("get_repo", repo_name)
          /\ out' = Append(out, Line("Error connecting to GitHub or accessing the repository",
                                     "", "GithubException"))
          /\ pc' = "exit"
    /\ UNCHANGED <<github_token, repo_name, world, stack, processed_files, results,
                   scanned, writes, report, file_content, matches>>

\* lines 148-149, up to the first statement of process_repository (56-57)
MainWalk ==
    /\ pc = "connected"
    /\ processed_files' = {}
    /\ netCalls' = netCalls + 1
    /\ \/ /\ stack' = <<Frame(repo_name, RootListing(world[repo_name]), "")>>
          /\ pc' = "walking"
          /\ UNCHANGED <<out, failures>>
       \/ /\ CanFail
          /\ Fails("get_contents_root", "")
          /\ stack' = <<>>
          /\ pc' = "crashed"
          /\ out' = Append(out, Line("Traceback", "", "GithubException"))
    /\ UNCHANGED <<github_token, repo_name, world, results, scanned, writes,
                   report, file_content, matches>>

Headers == <<"File Path", "Matched String", "Line Number", "Full Line">>

\* lines 90-115: the rows of the saved sheet
write_to_excel(rows) == <<Headers>> \o rows

\* lines 150-153 with the test of line 150 left out
MainReportAlways ==
    /\ pc = "returned"
    /\ writes' = writes + 1
    /\ report' = write_to_excel(results)
    /\ out' = Append(out, Line("Results written to", "hardcoded_passwords.xlsx", ""))
    /\ pc' = "done"
    /\ UNCHANGED <<github_token, repo_name, world, stack, processed_files, results,
                   netCalls, failures, scanned, file_content, matches>>

\* lines 150-153
MainReport ==
    /\ pc = "returned"
    /\ IF results # <<>>
       THEN /\ writes' = writes + 1
            /\ \/ /\ report' = write_to_excel(results)
                  /\ out' = Append(out, Line("Results written to",
                                             "hardcoded_passwords.xlsx", ""))
                  /\ pc' = "done"
                  /\ UNCHANGED failures
               \/ /\ CanFail
                  /\ Fails("save", "hardcoded_passwords.xlsx")
                  /\ out' = Append(out, Line("Traceback", "", "OSError"))
                  /\ pc' = "crashed"
                  /\ UNCHANGED report
       ELSE /\ out' = Append(out, Line("No potential hardcoded passwords found.", "", ""))
            /\ pc' = "done"
            /\ UNCHANGED <<writes, report, failures>>
    /\ UNCHANGED <<github_token, repo_name, world, stack, processed_files, results,
                   netCalls, scanned, file_content, matches>>

Init ==
    /\ github_token \in {None, "ghp"}
    /\ repo_name \in {None, "R0"}
    /\ world \in Worlds
    /\ (github_token = None \/ repo_name = None) =>
           world = [r \in Repos |-> IF r = "R2" THEN DefaultLeaf ELSE DefaultMid]
    /\ pc = "start"
    /\ stack = <<>>
    /\ processed_files = {}
    /\ results = <<>>
    /\ out = <<>>
    /\ netCalls = 0
    /\ failures = <<>>
    /\ scanned = <<>>
    /\ writes = 0
    /\ report = <<>>
    /\ file_content = <<>>
    /\ matches = <<>>

Next ==
    \/ MainConfigError
    \/ MainConnect
    \/ MainWalk
    \/ ProcessFile
    \/ ProcessDir
    \/ ProcessSubmodule
    \/ ProcessUnknown
    \/ Return
    \/ MainReport

Spec == Init /\ [][Next]_vars

(***************************************************************************)
(* A stand-alone call of check_file_for_passwords                          *)
(***************************************************************************)
\* the pieces a text is put together from: each symbol, and a whole secret
Chunks == {<<c>> : c \in Symbols} \cup {<<"K", "=", "x">>}

RECURSIVE TextsUpTo(_)
TextsUpTo(n) ==
    IF n = 0 THEN {<<>>}
    ELSE LET shorter == TextsUpTo(n - 1)
         IN  shorter \cup {t \o c : t \in shorter, c \in Chunks}

InitScan ==
    /\ file_content \in TextsUpTo(MaxLen)
    /\ matches = <<>>
    /\ pc = "scan"
    /\ github_token = None /\ repo_name = None
    /\ world = [r \in Repos |-> DefaultLeaf]
    /\ stack = <<>> /\ processed_files = {} /\ results = <<>> /\ out = <<>>
    /\ netCalls = 0 /\ failures = <<>> /\ scanned = <<>> /\ writes = 0
    /\ report = <<>>

\* lines 65-68 for one file "f", outside any walk
ScanFile ==
    /\ pc = "scan"
    /\ matches' = check_file_for_passwords(file_content)
    /\ results' = results \o FileFindings("f", file_content)
    /\ pc' = "scanned"
    /\ UNCHANGED <<github_token, repo_name, world, stack, processed_files, out,
                   netCalls, failures, scanned, writes, report, file_content>>

NextScan == ScanFile

SpecScan == InitScan /\ [][NextScan]_vars

(***************************************************************************)
(* Vocabulary of the properties                                            *)
(***************************************************************************)
\* the submodule entries, in repositories the walk can come to, that point to r
Links(w, r) ==
    {l \in Reachable(w) \X {"s", "t"} : Target(w[l[1]], l[2]) = r}

\* the file entries <<repository, path>> of the trees the walk can come to
FilesOf(w) ==
    {f \in Reachable(w) \X {"a", "d/b"} :
        IF f[2] = "a" THEN w[f[1]].a # NoFile ELSE w[f[1]].d}

\* directories and submodules form a tree below R0: no repository is linked
\* twice, and none links back to R0
TreeShaped(w) ==
    \A r \in Reachable(w) : Cardinality(Links(w, r)) = IF r = "R0" THEN 0 ELSE 1

\* how many findings of a list carry the path p
CountPath(findings, p) ==
    Cardinality({i \in DOMAIN findings : findings[i][1] = p})

\* a line holds keyword, separator and value, as PASSWORD_REGEX describes them
Shaped(line) ==
    \E i, j, k \in 1..Len(line) :
        /\ i < j /\ j < k
        /\ line[i] = "K" /\ line[j] = "="
        /\ \A m \in (i + 1)..(j - 1) : IsSpace(line[m])
        /\ \A m \in (j + 1)..(k - 1) :
               IsSpace(line[m]) \/ (m = k - 1 /\ line[m] = "q")
        /\ IsValueChar(line[k])

\* the positions of a line at which a secret starts
SecretStarts(line) == {i \in 1..Len(line) : MatchAt(line, i) # NoMatch}

Logged(kind) == \E i \in DOMAIN out : out[i][1] = kind

(***************************************************************************)
(* The walk as a function: the findings process_repository returns for the *)
(* queue of an activation reached along `chain`, when no provider call     *)
(* raises and the entry `empty` (a chain and a path) contains nothing.     *)
(* st is [results, processed].                                             *)
(***************************************************************************)
RECURSIVE RefLoop(_, _, _, _, _, _)
RefLoop(w, repo, chain, queue, st, empty) ==
    IF queue = <<>> THEN st
    ELSE LET content == Head(queue)
             rest    == Tail(queue)
             here    == [chain |-> chain, path |-> content.path]
         IN  CASE content.type = "file" ->
                   IF content.path \in st.processed
                   THEN RefLoop(w, repo, chain, rest, st, empty)
                   ELSE RefLoop(w, repo, chain, rest,
                                [results |-> st.results \o
                                    (IF here = empty THEN <<>>
                                     ELSE FileFindings(content.path,
                                                       Content(w[repo], content.path))),
                                 processed |-> st.processed \cup {content.path}],
                                empty)
               [] content.type = "dir" ->
                   RefLoop(w, repo, chain,
                           rest \o DirListing(w[repo], content.path), st, empty)
               [] content.type = "submodule" ->
                   IF Len(chain) >= RecursionLimit
                   THEN RefLoop(w, repo, chain, rest, st, empty)
                   ELSE LET sub   == Target(w[repo], content.path)
                            inner == RefLoop(w, sub, Append(chain, content.path),
                                             IF here = empty THEN <<>>
                                             ELSE RootListing(w[sub]),
                                             [results |-> <<>>,
                                              processed |-> st.processed],
                                             empty)
                        IN  RefLoop(w, repo, chain, rest,
                                    [results |-> st.results \o inner.results,
                                     processed |-> inner.processed],
                                    empty)
               [] OTHER -> RefLoop(w, repo, chain, rest, st, empty)

RefWalk(w, empty) ==
    RefLoop(w, "R0", <<"">>, RootListing(w["R0"]),
            [results |-> <<>>, processed |-> {}], empty).results

\* the entry whose handling a failed provider call ends: the file that was
\* read, the submodule that was resolved, or the submodule whose walk the
\* failed listing of a directory ends
FailedEntry(f) ==
    IF f.call = "get_contents_dir"
    THEN [chain |-> SubSeq(f.chain, 1, Len(f.chain) - 1),
          path |-> f.chain[Len(f.chain)]]
    ELSE [chain |-> f.chain, path |-> f.path]

NoEntry == [chain |-> <<>>, path |-> ""]

\* with no failure, the walk returns what the function computes
WalkIsRefWalk ==
    (pc = "returned" /\ failures = <<>>) => results = RefWalk(world, NoEntry)

(***************************************************************************)
(* C1. A walk over a submodule cycle terminates. On finite runs: the chain *)
(* of nested activations stops growing by itself, so the walk returns      *)
(* without ever running into the interpreter's recursion limit (no line    *)
(* printed by the walk reports a RecursionError).                          *)
(***************************************************************************)
C1_CycleWalkTerminates ==
    \A i \in DOMAIN out : out[i][3] # "RecursionError"

(***************************************************************************)
(* C2. No path is scanned twice in a run, every scanned path is in         *)
(* processed_files, and when a walk in which no provider call raised has   *)
(* returned, a file with exactly one matching line that two submodule      *)
(* links lead to has exactly one finding under its path.                   *)
(***************************************************************************)
C2_OneScanOneFindingPerPath ==
    /\ \A i, j \in DOMAIN scanned : scanned[i].path = scanned[j].path => i = j
    /\ \A i \in DOMAIN scanned : scanned[i].path \in processed_files
    /\ (pc = "returned" /\ failures = <<>>) =>
         \A f \in FilesOf(world) :
            ( /\ Len(check_file_for_passwords(Content(world[f[1]], f[2]))) = 1
              /\ Cardinality(Links(world, f[1])) >= 2 )
            => CountPath(results, f[2]) = 1

(***************************************************************************)
(* C3. When the repositories form a tree and no provider call raised, the  *)
(* returned walk has scanned every file of the tree exactly once, and      *)
(* every finding names a matching line of a file of the tree.              *)
(***************************************************************************)
C3_TreeWalkScansEveryFileOnce ==
    (pc = "returned" /\ failures = <<>> /\ TreeShaped(world)) =>
        /\ \A f \in FilesOf(world) :
              Cardinality({i \in DOMAIN scanned :
                              scanned[i] = [repo |-> f[1], path |-> f[2]]}) = 1
        /\ \A i \in DOMAIN results :
              \E f \in FilesOf(world) :
                 /\ f[2] = results[i][1]
                 /\ LET lines == splitlines(Content(world[f[1]], f[2]))
                    IN  /\ results[i][3] \in 1..Len(lines)
                        /\ Shaped(lines[results[i][3]])

(***************************************************************************)
(* C4. The findings of a scanned file are one per matching line and none   *)
(* for any other line: line numbers are 1-based positions of matching      *)
(* lines, strictly ascending (so no line is reported twice, however many   *)
(* secrets it holds), every matching line is reported with its stripped    *)
(* text and a value free of whitespace, quotes, '&' and ';', and the path  *)
(* occurs in the findings once per reported line.                          *)
(***************************************************************************)
C4_OneFindingPerMatchingLine ==
    pc = "scanned" =>
        LET lines == splitlines(file_content) IN
        /\ \A i \in DOMAIN matches :
              /\ matches[i][2] \in 1..Len(lines)
              /\ Shaped(lines[matches[i][2]])
              /\ matches[i][3] = strip(lines[matches[i][2]])
              /\ matches[i][1] # <<>>
              /\ \A c \in DOMAIN matches[i][1] : IsValueChar(matches[i][1][c])
        /\ \A i, j \in DOMAIN matches : i < j => matches[i][2] < matches[j][2]
        /\ \A n \in 1..Len(lines) :
              Shaped(lines[n]) => \E i \in DOMAIN matches : matches[i][2] = n
        /\ Len(results) = Len(matches)
        /\ \A i \in DOMAIN results : results[i] = <<"f">> \o matches[i]
        /\ CountPath(results, "f")
              = Cardinality({n \in 1..Len(lines) : Shaped(lines[n])})

\* a file whose line holds two secrets has been scanned
C4_Witness ==
    /\ pc = "scanned"
    /\ Len(matches) = 1
    /\ \E n \in DOMAIN splitlines(file_content) :
          Cardinality(SecretStarts(splitlines(file_content)[n])) >= 2

(***************************************************************************)
(* C5. The report is written at most once and only after the top-level     *)
(* walk has returned; after a walk that returned no findings main ends     *)
(* with no write and the "no findings" line; after a walk that returned    *)
(* findings the write has been attempted.                                  *)
(***************************************************************************)
C5_ReportOnceAfterWalk ==
    /\ writes <= 1
    /\ pc \in {"start", "connected", "walking", "returned", "exit"} =>
          writes = 0 /\ report = <<>>
    /\ writes = 1 => stack = <<>> /\ results # <<>>
    /\ report # <<>> => writes = 1 /\ report = write_to_excel(results)
    /\ pc = "done" =>
          IF results = <<>>
          THEN /\ writes = 0 /\ report = <<>>
               /\ out[Len(out)][1] = "No potential hardcoded passwords found."
          ELSE writes = 1
    /\ (pc = "crashed" /\ results # <<>>) => writes = 1

\* main ended after writing a report of the findings
C5_Witness ==
    /\ pc = "done" /\ writes = 1
    /\ results # <<>> /\ Len(report) = Len(results) + 1

(***************************************************************************)
(* C6. With the token or the repository name unset, main prints the error  *)
(* and returns with no request made; when the lookup fails it prints and   *)
(* returns; in these cases no walk and no write ever starts. Otherwise     *)
(* the walk is started.                                                    *)
(***************************************************************************)
ErrorKinds ==
    {"Error: GITHUB_TOKEN environment variable not set.",
     "Error: GITHUB_REPO environment variable not set.",
     "Error connecting to GitHub or accessing the repository"}

C6_FailFast ==
    /\ (github_token = None \/ repo_name = None) =>
          netCalls = 0 /\ pc \in {"start", "exit"}
    /\ pc = "exit" =>
          /\ Len(out) = 1 /\ out[1][1] \in ErrorKinds
          /\ stack = <<>> /\ scanned = <<>> /\ processed_files = {}
          /\ writes = 0 /\ report = <<>>
          /\ netCalls <= 1
    /\ (\E k \in ErrorKinds : Logged(k)) => pc = "exit"
    /\ pc = "connected" => ENABLED MainWalk
    /\ pc \in {"walking", "returned", "done", "crashed"} => netCalls >= 2

\* main returned because the lookup of the repository failed
C6_Witness ==
    /\ pc = "exit"
    /\ github_token # None /\ repo_name # None
    /\ Logged("Error connecting to GitHub or accessing the repository")

(***************************************************************************)
(* C7. When the read of a file entry raises, the step prints a line with   *)
(* the path of the file, adds no finding, and leaves the walk running      *)
(* with every pending entry of the queue, and every activation below,      *)
(* as it was.                                                              *)
(***************************************************************************)
ReadFails ==
    /\ Walking /\ Top.contents # <<>>
    /\ Head(Top.contents).type = "file"
    /\ Len(failures') = Len(failures) + 1

C7_FileErrorSkipsOnlyThatFile ==
    [][ReadFails =>
         /\ Len(out') = Len(out) + 1
         /\ out'[Len(out')][1] = "Error reading file"
         /\ out'[Len(out')][2] = Head(Top.contents).path
         /\ stack' = SetTop(Popped)
         /\ pc' = "walking"
         /\ scanned' = scanned]_vars

\* the read of the first file failed, and the walk returned findings of others
C7_Witness ==
    /\ pc = "returned"
    /\ failures = <<[call |-> "decoded_content", chain |-> <<"">>, path |-> "a"]>>
    /\ Logged("Error reading file")
    /\ results # <<>>

(***************************************************************************)
(* C8. When the listing of a directory entry popped from the queue of the  *)
(* top-level repository raises, the step prints a line, skips the entry    *)
(* and leaves the walk running with the remaining entries.                 *)
(***************************************************************************)
DirListingFailsAtTop ==
    /\ Walking /\ Len(stack) = 1 /\ Top.contents # <<>>
    /\ Head(Top.contents).type = "dir"
    /\ Len(failures') = Len(failures) + 1

C8_DirListingErrorRecoverable ==
    [][DirListingFailsAtTop =>
         /\ pc' = "walking"
         /\ stack' = SetTop(Popped)
         /\ Len(out') = Len(out) + 1]_vars

(***************************************************************************)
(* C9. When a submodule entry cannot be resolved, or a listing raises      *)
(* while the submodule's own activation runs, the step prints a line with  *)
(* the path of the submodule, the activation that handles the entry keeps  *)
(* its results unchanged (the findings collected inside the submodule are  *)
(* gone) and goes on with the entries pending in its queue; activations    *)
(* below it are untouched.                                                 *)
(***************************************************************************)
ResolveFails ==
    /\ Walking /\ Top.contents # <<>>
    /\ Head(Top.contents).type = "submodule"
    /\ Len(failures') = Len(failures) + 1

ListingFailsInSubmodule ==
    /\ Walking /\ Len(stack) > 1 /\ Top.contents # <<>>
    /\ Head(Top.contents).type = "dir"
    /\ Len(failures') = Len(failures) + 1

SubmoduleDropped(parent, pending, path) ==
    /\ Len(stack') = parent
    /\ \A i \in 1..(parent - 1) : stack'[i] = stack[i]
    /\ stack'[parent] = [stack[parent] EXCEPT !.contents = pending]
    /\ pc' = "walking"
    /\ results' = results
    /\ Len(out') = Len(out) + 1
    /\ out'[Len(out')][1] \in
          {"Error processing submodule",
           "Warning: Could not get repository object for submodule"}
    /\ out'[Len(out')][2] = path

C10_FailureEndsOneEntryOnly ==
    (pc = "returned" /\ Len(failures) = 1) =>
        results = RefWalk(world, FailedEntry(failures[1]))

====
